---- MODULE Spec2Model ----
(***************************************************************************)
(* Model of the runtime schema inspector of dash/tools/introspect.py:      *)
(* create_introspect_schema_tool fixes the dialect flag from the database  *)
(* URL, and every call of introspect_schema reads the catalog of a live    *)
(* database and renders a text report.                                     *)
(*                                                                         *)
(* Text is modelled as what the f-strings build: a report is the sequence  *)
(* of its lines ("\n".join(lines)), a line is the sequence of the literal  *)
(* and interpolated pieces of its f-string, each piece a string.  Names,   *)
(* URLs and cell values are sequences of one-character strings, so that    *)
(* lower(), sorted(), str() and the [:30] slice are computed character by  *)
(* character.                                                              *)
(***************************************************************************)
EXTENDS Integers, Sequences, FiniteSets, TLC

(***************************************************************************)
(* Bounds of the model.                                                    *)
(***************************************************************************)
\* number of objects of the large catalog (more than the 50 candidates shown)
NBig == 52
\* largest sample_limit a call is given besides the default
MaxSampleLimit == 1
\* number of database steps of one call that fail
MaxFaults == 2

(***************************************************************************)
(* Program constants.                                                      *)
(***************************************************************************)
\* str(v)[:30]
MaxCellLen == 30
\* all_objects[:50]
MaxCandidates == 50
\* sample_limit: int = 5
DefaultSampleLimit == 5

(***************************************************************************)
(* Characters and Python's str operations.                                 *)
(***************************************************************************)
Min(a, b) == IF a < b THEN a ELSE b

UpperCase == <<"A","B","C","D","E","F","G","H","I","J","K","L","M",
               "N","O","P","Q","R","S","T","U","V","W","X","Y","Z">>
LowerCase == <<"a","b","c","d","e","f","g","h","i","j","k","l","m",
               "n","o","p","q","r","s","t","u","v","w","x","y","z">>
DigitChars == <<"0","1","2","3","4","5","6","7","8","9">>

\* The characters in code-point order; ord(c) is the position (order-preserving).
CodePoints ==
    <<" ", "\"", "+", "-", "/">> \o DigitChars \o <<":", ";">> \o UpperCase
        \o <<"]", "_">> \o LowerCase

OrdTable == [c \in {CodePoints[i] : i \in 1..Len(CodePoints)} |->
                CHOOSE i \in 1..Len(CodePoints) : CodePoints[i] = c]

ord(c) == OrdTable[c]

\* str.lower() on one character
LowerChar(c) ==
    IF \E i \in 1..Len(UpperCase) : UpperCase[i] = c
    THEN LowerCase[CHOOSE i \in 1..Len(UpperCase) : UpperCase[i] = c]
    ELSE c

\* str.lower()
lower(s) == [i \in 1..Len(s) |-> LowerChar(s[i])]

\* a in b for strings: b has a as a contiguous substring
Contains(a, b) ==
    \E i \in 0..(Len(b) - Len(a)) : \A j \in 1..Len(a) : b[i + j] = a[j]

\* s[:n]
Prefix(s, n) == SubSeq(s, 1, Min(n, Len(s)))

\* a < b for Python strings: lexicographic by code point, a proper prefix first
RECURSIVE StrLess(_, _)
StrLess(a, b) ==
    IF Len(b) = 0 THEN FALSE
    ELSE IF Len(a) = 0 THEN TRUE
    ELSE IF a[1] # b[1] THEN ord(a[1]) < ord(b[1])
    ELSE StrLess(Tail(a), Tail(b))

\* sorted(s) for a list of strings: a stable sort, element i going to the
\* place after the elements that are smaller, or equal and before it
sorted(s) ==
    LET n == Len(s)
        before == <<>> \o [i \in 1..n |->
                      Cardinality({j \in 1..n : \/ StrLess(s[j], s[i])
                                                \/ (j < i /\ ~StrLess(s[i], s[j]))})]
    IN  <<>> \o [k \in 1..n |-> s[CHOOSE i \in 1..n : before[i] = k - 1]]

\* The text of a sequence of characters, as one string piece of a line.
RECURSIVE Str(_)
Str(s) == IF Len(s) = 0 THEN "" ELSE s[1] \o Str(Tail(s))

\* sep.join(parts): the pieces of the joined text
RECURSIVE join(_, _)
join(sep, parts) ==
    IF Len(parts) = 0 THEN <<>>
    ELSE IF Len(parts) = 1 THEN <<parts[1]>>
    ELSE <<parts[1], sep>> \o join(sep, Tail(parts))

\* str(n) for a natural number, as characters
RECURSIVE NatChars(_)
NatChars(n) ==
    IF n < 10 THEN <<DigitChars[n + 1]>>
    ELSE NatChars(n \div 10) \o <<DigitChars[(n % 10) + 1]>>

\* str(n) for an integer, as characters
IntChars(n) == IF n < 0 THEN <<"-">> \o NatChars(0 - n) ELSE NatChars(n)

\* the three digits of a group after a thousands separator
Group3(n) ==
    <<DigitChars[(n \div 100) + 1], DigitChars[((n \div 10) % 10) + 1],
      DigitChars[(n % 10) + 1]>>

\* f"{count:,}" for a natural number, as characters
RECURSIVE Thousands(_)
Thousands(n) ==
    IF n < 1000 THEN NatChars(n)
    ELSE Thousands(n \div 1000) \o <<",">> \o Group3(n % 1000)

(***************************************************************************)
(* The database: what SQLAlchemy's inspector and connection answer.        *)
(***************************************************************************)
\* DB-NULL, and the Python values a driver returns for a cell
NullCell == [t |-> "None", i |-> 0, s |-> <<>>]
IntCell(n) == [t |-> "int", i |-> n, s |-> <<>>]
BoolCell(b) == [t |-> "bool", i |-> IF b THEN 1 ELSE 0, s |-> <<>>]
StrCell(s) == [t |-> "str", i |-> 0, s |-> s]

\* a text value one character longer than a sample cell shows
LongText == [i \in 1..(MaxCellLen + 1) |-> IF i > MaxCellLen THEN "y" ELSE "x"]
\* a text value exactly as long as a sample cell shows
FullText == [i \in 1..MaxCellLen |-> "z"]

Column(n, ty, nl) == [name |-> n, type |-> ty, nullable |-> nl]

\* What the database holds for one object: get_columns, get_pk_constraint,
\* COUNT(*) and the rows of SELECT *.
Profiles == <<
    [columns |-> <<Column("id", "INTEGER", "False"), Column("note", "VARCHAR", "missing")>>,
     pk |-> [present |-> TRUE, constrained_columns |-> <<"id">>],
     count |-> 3,
     rows |-> << <<IntCell(1), StrCell(<<"a">>)>>,
                 <<IntCell(0), NullCell>>,
                 <<IntCell(-7), StrCell(<<>>)>> >>],
    [columns |-> <<>>,
     pk |-> [present |-> FALSE, constrained_columns |-> <<>>],
     count |-> 0,
     rows |-> <<>>],
    [columns |-> <<Column("flag", "BOOLEAN", "True")>>,
     pk |-> [present |-> TRUE, constrained_columns |-> <<>>],
     count |-> 1234567,
     rows |-> << <<BoolCell(FALSE)>>, <<StrCell(LongText)>>, <<StrCell(FullText)>> >>],
    [columns |-> <<Column("a", "INTEGER", "False"), Column("b", "BOOLEAN", "False")>>,
     pk |-> [present |-> TRUE, constrained_columns |-> <<"a", "b">>],
     count |-> 1000,
     rows |-> << <<IntCell(1234), BoolCell(TRUE)>> >>] >>

NProfiles == Len(Profiles)

\* the names of the large catalog, in the order the database lists them
BigNames == [i \in 1..NBig |-> <<"n">> \o NatChars(NBig + 1 - i)]

\* Names a database accepts for a table although they hold the closing
\* delimiter of a quoted identifier (CREATE TABLE "t""; DROP TABLE u; --").
QuoteName == <<"t", "\"", ";", " ", "D", "R", "O", "P", " ", "T", "A", "B", "L", "E", " ",
               "u", ";", " ", "-", "-">>
BracketName == <<"t", "]", ";", " ", "D", "R", "O", "P", " ", "T", "A", "B", "L", "E", " ",
                 "u", ";", " ", "-", "-">>

\* The (table names, view names) pairs the two catalog queries return.
Catalogs == <<
    [tables |-> <<>>, views |-> <<>>],
    [tables |-> << <<"u">>, <<"a","b">>, <<"U">> >>, views |-> << <<"v">> >>],
    [tables |-> << <<"a","b">>, <<"A","b">> >>, views |-> << <<"A","B">> >>],
    [tables |-> << <<"t">> >>, views |-> << <<"t">>, <<"v">> >>],
    [tables |-> <<>>, views |-> << <<"v">>, <<"V">> >>],
    [tables |-> <<QuoteName, BracketName, <<"u">> >>, views |-> <<>>],
    [tables |-> SubSeq(BigNames, 1, 2), views |-> SubSeq(BigNames, 3, NBig)] >>

Range(s) == {s[i] : i \in 1..Len(s)}

\* position of the first occurrence of x in s
IndexOf(x, s) == CHOOSE i \in 1..Len(s) : s[i] = x /\ \A j \in 1..(i - 1) : s[j] # x

\* A database: a catalog, and a rotation v that decides which of the profiles
\* each of its objects has (so that every object meets every profile).
Database(k, v) == [tables |-> Catalogs[k].tables, views |-> Catalogs[k].views, v |-> v]

Databases ==
    {Database(k, v) : k \in 1..(Len(Catalogs) - 2), v \in 1..NProfiles}
        \cup {Database(Len(Catalogs) - 1, 1), Database(Len(Catalogs), 1)}

\* What the database holds for the object named n.
Meta(db, n) == Profiles[((IndexOf(n, db.tables \o db.views) + db.v) % NProfiles) + 1]

\* The exceptions a database step raises: OperationalError and ProgrammingError
\* are sqlalchemy.exc.DatabaseError; InterfaceError is not.
Errors == {"OperationalError", "ProgrammingError", "InterfaceError"}
IsOperationalError(e) == e = "OperationalError"
IsDatabaseError(e) == e \in {"OperationalError", "ProgrammingError"}

\* the steps of a call that reach the database
Step(op, n) == [op |-> op, name |-> n]
ListingSteps(db) ==
    {Step("get_table_names", <<>>), Step("get_view_names", <<>>)}
        \cup {Step("count", t) : t \in Range(db.tables)}
TargetSteps ==
    {Step(op, <<>>) : op \in {"get_table_names", "get_view_names", "get_columns",
                              "get_pk_constraint", "sample"}}

\* no step fails
NoFault(steps) == [s \in steps |-> "ok"]

\* The ways the steps of a listing fail: one of the two catalog queries (the
\* call ends there), or at most MaxFaults of the count queries.
ListingPlans(db) ==
    LET steps == ListingSteps(db)
        counts == {Step("count", t) : t \in Range(db.tables)}
    IN  {[NoFault(steps) EXCEPT ![s] = e] : s \in steps \ counts, e \in Errors}
        \cup UNION {{[s \in steps |-> IF s \in F THEN g[s] ELSE "ok"] : g \in [F -> Errors]} :
                    F \in {X \in SUBSET counts : Cardinality(X) <= MaxFaults}}

\* The ways the steps of an object report fail: every failure ends the call
\* or is its last step, so at most one step fails.
TargetPlans ==
    {NoFault(TargetSteps)}
        \cup {[NoFault(TargetSteps) EXCEPT ![s] = e] : s \in TargetSteps, e \in Errors}

\* str(e)
ErrText(e, op) == "(" \o e \o ") " \o op

\* what the database returns for a row-limited SELECT *: the first n rows
\* (every row for a negative n, as SQLite does)
Fetch(rows, n) == IF n < 0 THEN rows ELSE SubSeq(rows, 1, Min(n, Len(rows)))

(***************************************************************************)
(* The inspector.                                                          *)
(***************************************************************************)
\* _is_mssql without the lower(): "mssql" is looked for as spelled
is_mssql_exact(db_url) == Contains(<<"m","s","s","q","l">>, db_url)

\* _is_mssql(db_url)
is_mssql(db_url) == Contains(<<"m","s","s","q","l">>, lower(db_url))

\* One thing the call asks of the database, with the name or the SQL text.
Event(op, arg) == [op |-> op, arg |-> arg]

\* quoted = f"[{t}]" if mssql else f'"{t}"'
quoted(mssql, t) == IF mssql THEN <<"[", Str(t), "]">> ELSE <<"\"", Str(t), "\"">>

\* f"SELECT COUNT(*) FROM {quoted}"
CountSql(mssql, t) == <<"SELECT COUNT(*) FROM ">> \o quoted(mssql, t)

\* f"SELECT TOP {sample_limit} * FROM {quoted}" or
\* f"SELECT * FROM {quoted} LIMIT {sample_limit}"
SampleSql(mssql, t, sample_limit) ==
    IF mssql
    THEN <<"SELECT TOP ", Str(IntChars(sample_limit)), " * FROM ">> \o quoted(mssql, t)
    ELSE <<"SELECT * FROM ">> \o quoted(mssql, t)
             \o <<" LIMIT ", Str(IntChars(sample_limit))>>

\* How a call ends: the text it returns, or the exception it raises; and the
\* database steps it made, in order.
Returned(lines, trace) ==
    [status |-> "returned", text |-> lines, exc |-> "none", trace |-> trace]
Raised(e, trace) ==
    [status |-> "raised", text |-> <<>>, exc |-> e, trace |-> trace]

\* the handlers of the outer try in the other order: DatabaseError, the base
\* class, takes the OperationalError too
Except_DatabaseFirst(e, op, trace) ==
    IF IsDatabaseError(e)
    THEN Returned(<< <<"Error: ", ErrText(e, op)>> >>, trace)
    ELSE IF IsOperationalError(e)
    THEN Returned(<< <<"Error: Database connection failed - ", ErrText(e, op)>> >>, trace)
    ELSE Raised(e, trace)

\* The handlers of the outer try: OperationalError, then DatabaseError; any
\* other exception leaves the function.
Except(e, op, trace) ==
    IF IsOperationalError(e)
    THEN Returned(<< <<"Error: Database connection failed - ", ErrText(e, op)>> >>, trace)
    ELSE IF IsDatabaseError(e)
    THEN Returned(<< <<"Error: ", ErrText(e, op)>> >>, trace)
    ELSE Raised(e, trace)

\* a block that releases its connection only when execute returns
Query_CloseOnSuccess(sql, e) ==
    <<Event("connect", <<>>), Event("execute", sql)>>
        \o (IF e = "ok" THEN <<Event("close", <<>>)>> ELSE <<>>)

\* with engine.connect() as conn: conn.execute(text(sql)), e the outcome of
\* execute: the connection is released however the block is left, by a
\* return of execute or by its exception
Query(sql, e) ==
    <<Event("connect", <<>>), Event("execute", sql), Event("close", <<>>)>>

\* the connections of the engine that a sequence of calls leaves checked
\* out: one more for each connect, one less for each close
RECURSIVE CheckedOut(_)
CheckedOut(trace) ==
    IF trace = <<>> THEN 0
    ELSE CheckedOut(SubSeq(trace, 1, Len(trace) - 1))
           + (IF trace[Len(trace)].op = "connect" THEN 1
              ELSE IF trace[Len(trace)].op = "close" THEN -1 ELSE 0)

\* The loop over the tables of a listing, from table i on: the entry of each
\* table, with its count unless the count query raised a DatabaseError.
RECURSIVE CountLoop(_, _, _, _, _, _, _)
CountLoop(mssql, db, faults, tables, i, lines, trace) ==
    IF i > Len(tables) THEN [exc |-> "none", lines |-> lines, trace |-> trace]
    ELSE
      LET t == tables[i]
          e == faults[Step("count", t)]
          trace2 == trace \o Query(CountSql(mssql, t), e)
      IN  IF e = "ok"
          THEN CountLoop(mssql, db, faults, tables, i + 1,
                         Append(lines, <<"- **", Str(t), "** (",
                                         Str(Thousands(Meta(db, t).count)), " rows)">>),
                         trace2)
          ELSE IF IsDatabaseError(e)
          THEN CountLoop(mssql, db, faults, tables, i + 1,
                         Append(lines, <<"- **", Str(t), "**">>), trace2)
          ELSE [exc |-> e, lines |-> lines, trace |-> trace2]

\* lines.extend(["", "## Views", ""]) and one entry per view
ViewLines(views) ==
    IF Len(views) = 0 THEN <<>>
    ELSE << <<"">>, <<"## Views">>, <<"">> >>
            \o [i \in 1..Len(views) |-> <<"- **", Str(views[i]), "**">>]

\* introspect_schema(table_name=None): the listing of all tables and views
ListObjects(mssql, db, faults) ==
    LET ev1 == <<Event("get_table_names", <<>>)>>
        ev2 == ev1 \o <<Event("get_view_names", <<>>)>>
        e1 == faults[Step("get_table_names", <<>>)]
        e2 == faults[Step("get_view_names", <<>>)]
    IN  IF e1 # "ok" THEN Except(e1, "get_table_names", ev1)
        ELSE IF e2 # "ok" THEN Except(e2, "get_view_names", ev2)
        ELSE
          LET tables == sorted(db.tables)
              views == sorted(db.views)
          IN  IF Len(tables) = 0 /\ Len(views) = 0
              THEN Returned(<< <<"No tables or views found.">> >>, ev2)
              ELSE
                LET counted == CountLoop(mssql, db, faults, tables, 1,
                                         << <<"## Tables">>, <<"">> >>, ev2)
                IN  IF counted.exc # "none"
                    THEN Except(counted.exc, "count", counted.trace)
                    ELSE Returned(counted.lines \o ViewLines(views), counted.trace)

\* bool(v) of a cell value: None, 0, False and '' are falsy
Truthy(v) ==
    CASE v.t = "None" -> FALSE
      [] v.t = "int" -> v.i # 0
      [] v.t = "bool" -> v.i # 0
      [] v.t = "str" -> Len(v.s) > 0

\* str(v) of a cell value, as characters
StrOf(v) ==
    CASE v.t = "None" -> <<"N","o","n","e">>
      [] v.t = "int" -> IntChars(v.i)
      [] v.t = "bool" -> IF v.i # 0 THEN <<"T","r","u","e">> ELSE <<"F","a","l","s","e">>
      [] v.t = "str" -> v.s

\* str(v)[:30] if v else "NULL"
CellText(v) == IF Truthy(v) THEN Str(Prefix(StrOf(v), MaxCellLen)) ELSE "NULL"

\* "| " + " | ".join(cells) + " |"
PipeRow(cells) == <<"| ">> \o join(" | ", cells) \o <<" |">>

\* the rows of the sample table, under the header and the --- line
SampleTable(col_names, rows) ==
    IF Len(rows) > 0
    THEN <<PipeRow(col_names), PipeRow([i \in 1..Len(col_names) |-> "---"])>>
            \o [r \in 1..Len(rows) |->
                  PipeRow([c \in 1..Len(rows[r]) |-> CellText(rows[r][c])])]
    ELSE << <<"_No data_">> >>

\* the "### Columns" section; nothing when get_columns returns no column
ColumnLines(cols) ==
    IF Len(cols) = 0 THEN <<>>
    ELSE << <<"### Columns">>, <<"">>, <<"| Column | Type | Nullable |">>,
            <<"| --- | --- | --- |">> >>
            \o [i \in 1..Len(cols) |->
                  <<"| ", cols[i].name, " | ", cols[i].type, " | ",
                    IF cols[i].nullable = "False" THEN "No" ELSE "Yes", " |">>]
            \o << <<"">> >>

\* the primary-key lines, when the constraint names at least one column
PkLines(pk) ==
    IF pk.present /\ Len(pk.constrained_columns) > 0
    THEN << <<"**Primary Key:** ">> \o join(", ", pk.constrained_columns), <<"">> >>
    ELSE <<>>

\* Python's None, for a table_name and for a match
None == <<"None">>

\* the last case-insensitive match instead of the first
Match_Last(all_objects, table_name) ==
    LET hits == {i \in 1..Len(all_objects) : lower(all_objects[i]) = lower(table_name)}
    IN  IF hits = {} THEN 0 ELSE CHOOSE i \in hits : \A j \in hits : i >= j

\* next((o for o in all_objects if o.lower() == table_name.lower()), None),
\* as the position of the match, 0 for None
Match(all_objects, table_name) ==
    LET hits == {i \in 1..Len(all_objects) : lower(all_objects[i]) = lower(table_name)}
    IN  IF hits = {} THEN 0 ELSE CHOOSE i \in hits : \A j \in hits : i <= j

\* The name the report is about: table_name itself when it is in all_objects,
\* else the case-insensitive match; None when there is none.
Resolve(all_objects, table_name) ==
    IF table_name \in Range(all_objects) THEN table_name
    ELSE LET m == Match(all_objects, table_name)
         IN  IF m # 0 /\ Len(all_objects[m]) > 0 THEN all_objects[m] ELSE None

\* the not-found message without the [:50] slice
NotFoundLine_All(all_objects, table_name) ==
    LET shown == sorted(all_objects)
    IN  <<"Table/view '", Str(table_name), "' not found. Available: ">>
            \o join(", ", [i \in 1..Len(shown) |-> Str(shown[i])])
            \o <<"...">>

\* f"Table/view '{table_name}' not found. Available: {', '.join(sorted(all_objects[:50]))}..."
NotFoundLine(all_objects, table_name) ==
    LET shown == sorted(Prefix(all_objects, MaxCandidates))
    IN  <<"Table/view '", Str(table_name), "' not found. Available: ">>
            \o join(", ", [i \in 1..Len(shown) |-> Str(shown[i])])
            \o <<"...">>

\* the sample section without its own except clause: every exception of the
\* sample query leaves the section
SampleSection_Raises(mssql, db, e, name, sample_limit) ==
    IF e = "ok"
    THEN [exc |-> "none",
          lines |-> << <<"### Sample">> >>
                      \o SampleTable([i \in 1..Len(Meta(db, name).columns) |->
                                         Meta(db, name).columns[i].name],
                                     Fetch(Meta(db, name).rows, sample_limit))]
    ELSE [exc |-> e, lines |-> << <<"### Sample">> >>]

\* The sample section: the heading, then the table or the inline error note.
\* An exception that is no DatabaseError leaves the section.
SampleSection(mssql, db, e, name, sample_limit) ==
    IF e = "ok"
    THEN [exc |-> "none",
          lines |-> << <<"### Sample">> >>
                      \o SampleTable([i \in 1..Len(Meta(db, name).columns) |->
                                         Meta(db, name).columns[i].name],
                                     Fetch(Meta(db, name).rows, sample_limit))]
    ELSE IF IsDatabaseError(e)
    THEN [exc |-> "none",
          lines |-> << <<"### Sample">>, <<"_Error: ", ErrText(e, "sample"), "_">> >>]
    ELSE [exc |-> e, lines |-> << <<"### Sample">> >>]

\* Whether the primary key of the resolved name is fetched.
IsTable(all_tables, name) == name \in Range(all_tables)

\* introspect_schema(table_name, include_sample_data, sample_limit): the report
\* of one table or view
InspectObject(mssql, db, faults, table_name, include_sample_data, sample_limit) ==
    LET ev1 == <<Event("get_table_names", <<>>)>>
        ev2 == ev1 \o <<Event("get_view_names", <<>>)>>
        e1 == faults[Step("get_table_names", <<>>)]
        e2 == faults[Step("get_view_names", <<>>)]
        e3 == faults[Step("get_columns", <<>>)]
        e4 == faults[Step("get_pk_constraint", <<>>)]
        e5 == faults[Step("sample", <<>>)]
        all_tables == db.tables
        all_views == db.views
        all_objects == all_tables \o all_views
        name == Resolve(all_objects, table_name)
        ev3 == ev2 \o <<Event("get_columns", <<Str(name)>>)>>
        lines3 == << <<"## ", Str(name)>>, <<"">> >> \o ColumnLines(Meta(db, name).columns)
        ev4 == IF IsTable(all_tables, name)
               THEN ev3 \o <<Event("get_pk_constraint", <<Str(name)>>)>> ELSE ev3
        lines4 == IF IsTable(all_tables, name)
                  THEN lines3 \o PkLines(Meta(db, name).pk) ELSE lines3
        ev5 == IF include_sample_data
               THEN ev4 \o Query(SampleSql(mssql, name, sample_limit), e5) ELSE ev4
        sample == SampleSection(mssql, db, e5, name, sample_limit)
    IN  IF e1 # "ok" THEN Except(e1, "get_table_names", ev1)
        ELSE IF e2 # "ok" THEN Except(e2, "get_view_names", ev2)
        ELSE IF name = None
        THEN Returned(<<NotFoundLine(all_objects, table_name)>>, ev2)
        ELSE IF e3 # "ok" THEN Except(e3, "get_columns", ev3)
        ELSE IF IsTable(all_tables, name) /\ e4 # "ok"
        THEN Except(e4, "get_pk_constraint", ev4)
        ELSE IF ~include_sample_data THEN Returned(lines4, ev4)
        ELSE IF sample.exc # "none" THEN Except(sample.exc, "sample", ev5)
        ELSE Returned(lines4 \o sample.lines, ev5)

\* introspect_schema(table_name, include_sample_data, sample_limit)
introspect_schema(mssql, db, faults, table_name, include_sample_data, sample_limit) ==
    IF table_name = None
    THEN ListObjects(mssql, db, faults)
    ELSE InspectObject(mssql, db, faults, table_name, include_sample_data, sample_limit)

(***************************************************************************)
(* The state machine: one inspector, called any number of times against    *)
(* a database whose content and failures the environment chooses.  The     *)
(* tool is invoked synchronously: a call runs to its end, the agent        *)
(* framework takes what it returned or raised, and the next call starts.   *)
(***************************************************************************)
VARIABLES
    db_url,                \* the URL given to create_introspect_schema_tool
    mssql,                 \* the dialect flag of the closure
    held,                  \* the connections of the engine checked out
    table_name,            \* the arguments of the last call
    include_sample_data,
    sample_limit,
    db,                    \* the database the last call met
    faults,                \* how its steps failed in that call
    result                 \* how the last call ended, and its database steps

vars == <<db_url, mssql, held, table_name, include_sample_data, sample_limit, db, faults, result>>

\* the connection strings an inspector is created with
Urls == { <<"m","s","s","q","l","+","p">>,
          <<"p",":","/","M","s","S","q","L">>,
          <<"m","y","s","q","l">> }

\* the names a caller asks for
Targets == { <<"a","b">>, <<"a","B">>, <<"A","B">>, <<"t">>, <<"v">>, <<"x">>, <<>>,
             <<"N","1">> }

\* the (include_sample_data, sample_limit) pairs a caller gives
SampleArgs ==
    {[include |-> FALSE, limit |-> DefaultSampleLimit]}
        \cup {[include |-> TRUE, limit |-> l] :
                 l \in (-1..MaxSampleLimit) \cup {DefaultSampleLimit}}

\* Every failing step of the plan is a step the call reached.
Reached(f, trace) ==
    \A s \in DOMAIN f :
        f[s] # "ok" =>
            \E i \in 1..Len(trace) :
                IF s.op = "count" THEN trace[i] = Event("execute", CountSql(mssql, s.name))
                ELSE IF s.op = "sample" THEN trace[i].op = "execute"
                ELSE trace[i].op = s.op

\* no call is running and none has ended undelivered
Idle ==
    /\ table_name = None
    /\ include_sample_data = FALSE
    /\ sample_limit = DefaultSampleLimit
    /\ db = Database(1, 1)
    /\ faults = NoFault(ListingSteps(Database(1, 1)))
    /\ result = [status |-> "idle", text |-> <<>>, exc |-> "none", trace |-> <<>>]

\* create_introspect_schema_tool(db_url): no call made yet
Init ==
    /\ db_url \in Urls
    /\ mssql = is_mssql(db_url)
    /\ held = 0
    /\ Idle

\* a call introspect_schema(), listing tables and views
ListCall ==
    \E d \in Databases : \E f \in ListingPlans(d) :
        LET out == introspect_schema(mssql, d, f, None, FALSE, DefaultSampleLimit)
        IN  /\ result.status = "idle"
            /\ Reached(f, out.trace)
            /\ table_name' = None
            /\ include_sample_data' = FALSE
            /\ sample_limit' = DefaultSampleLimit
            /\ db' = d
            /\ faults' = f
            /\ result' = out
            /\ held' = held + CheckedOut(out.trace)
            /\ UNCHANGED <<db_url, mssql>>

\* a call introspect_schema(table_name, include_sample_data, sample_limit)
InspectCall ==
    \E d \in Databases : \E t \in Targets : \E a \in SampleArgs :
      \E f \in TargetPlans :
        LET out == introspect_schema(mssql, d, f, t, a.include, a.limit)
        IN  /\ result.status = "idle"
            /\ Reached(f, out.trace)
            /\ table_name' = t
            /\ include_sample_data' = a.include
            /\ sample_limit' = a.limit
            /\ db' = d
            /\ faults' = f
            /\ result' = out
            /\ held' = held + CheckedOut(out.trace)
            /\ UNCHANGED <<db_url, mssql>>

\* The agent framework takes the result of the call; the frame of the call
\* is gone, the closure (engine, mssql) stays.
Deliver ==
    /\ result.status # "idle"
    /\ table_name' = None
    /\ include_sample_data' = FALSE
    /\ sample_limit' = DefaultSampleLimit
    /\ db' = Database(1, 1)
    /\ faults' = NoFault(ListingSteps(Database(1, 1)))
    /\ result' = [status |-> "idle", text |-> <<>>, exc |-> "none", trace |-> <<>>]
    /\ UNCHANGED <<db_url, mssql, held>>

Next == ListCall \/ InspectCall \/ Deliver

Spec == Init /\ [][Next]_vars

(***************************************************************************)
(* Properties.                                                             *)
(***************************************************************************)
\* a call has ended and its result is not yet taken
Called == result.status # "idle"
ListingCalled == Called /\ table_name = None
TargetCalled == Called /\ table_name # None

\* both catalog queries of the call succeeded
CatalogFetched ==
    /\ faults[Step("get_table_names", <<>>)] = "ok"
    /\ faults[Step("get_view_names", <<>>)] = "ok"

\* the SQL statements the call sent
Statements == {result.trace[i].arg : i \in {j \in 1..Len(result.trace) : result.trace[j].op = "execute"}}

\* C1: every call of introspect_schema ends by returning a text, whatever step
\* of the database failed and whatever the kind of the failure; no failure is
\* raised to the caller.
C1_NeverRaises == Called => result.status = "returned"

\* the tables of the listing in the order of their entries: ascending, and the
\* same names as the catalog query returned
IsSortedListOf(names, given) ==
    /\ Len(names) = Len(given)
    /\ \A n \in Range(given) :
          Cardinality({i \in 1..Len(names) : names[i] = n})
              = Cardinality({i \in 1..Len(given) : given[i] = n})
    /\ \A i \in 1..(Len(names) - 1) : ~StrLess(names[i + 1], names[i])

\* the entry of a table in a listing: with the count (a natural number, its
\* digits grouped by thousands), or the name alone
IsCountedEntry(line, t) ==
    /\ Len(line) = 5
    /\ line[1] = "- **" /\ line[2] = Str(t) /\ line[3] = "** (" /\ line[5] = " rows)"
    /\ \E n \in {Profiles[i].count : i \in 1..NProfiles} : line[4] = Str(Thousands(n))
IsBareEntry(line, t) == line = <<"- **", Str(t), "**">>

\* C2: in a listing the entry of every table whose count query succeeded has a
\* non-negative count, the entry of every table whose count query failed has
\* none, the entry of any other table is what it is when that query does not
\* fail, and there is one entry per table, in sorted order.
C2_CountFailureIsLocal ==
    (ListingCalled /\ CatalogFetched /\ Len(db.tables) > 0) =>
        /\ result.status = "returned"
        /\ Len(result.text) >= 2 + Len(db.tables)
        /\ \E names \in {sorted(db.tables)} :
              /\ IsSortedListOf(names, db.tables)
              /\ \A i \in 1..Len(names) :
                    LET t == names[i]
                        line == result.text[2 + i]
                        healthy == ListObjects(mssql, db,
                                      [faults EXCEPT ![Step("count", t)] = "ok"])
                    IN  /\ faults[Step("count", t)] = "ok" => IsCountedEntry(line, t)
                        /\ faults[Step("count", t)] # "ok" => IsBareEntry(line, t)
                        /\ \A j \in 1..Len(names) :
                              j # i => healthy.text[2 + j] = result.text[2 + j]

\* the same, for the count failures that are a sqlalchemy DatabaseError
C2_DatabaseErrorsOnly ==
    (\A s \in DOMAIN faults : faults[s] = "ok" \/ IsDatabaseError(faults[s]))
        => C2_CountFailureIsLocal

\* the cells of the sample table of the report, row r and column c, when the
\* sample query returned rows: the table is the end of the report
SampleShown ==
    /\ TargetCalled /\ result.status = "returned" /\ include_sample_data
    /\ faults[Step("sample", <<>>)] = "ok"
    /\ \E i \in 1..Len(result.text) : result.text[i] = <<"### Sample">>
SampleHeading == CHOOSE i \in 1..Len(result.text) : result.text[i] = <<"### Sample">>
ShownRows == Len(result.text) - SampleHeading - 2
ShownCell(r, c) == result.text[SampleHeading + 2 + r][2 * c]

\* two names that differ at most in the case of their letters
SameLetters(a, b) ==
    /\ Len(a) = Len(b)
    /\ \A i \in 1..Len(a) :
          \/ a[i] = b[i]
          \/ \E k \in 1..Len(UpperCase) : {a[i], b[i]} = {UpperCase[k], LowerCase[k]}

\* the names of the catalog, tables first, and those the target stands for
AllObjects == db.tables \o db.views
CaseMatches == {i \in 1..Len(AllObjects) : SameLetters(AllObjects[i], table_name)}
ExactMatch == \E i \in 1..Len(AllObjects) : AllObjects[i] = table_name
FirstCaseMatch == AllObjects[CHOOSE i \in CaseMatches : \A j \in CaseMatches : i <= j]

\* the name the report is about
ResolvedName == IF ExactMatch THEN table_name ELSE FirstCaseMatch

\* the rows the sample query returned
FetchedRows == Fetch(Meta(db, ResolvedName).rows, sample_limit)

\* C3: a cell of the sample renders as NULL if and only if its value is
\* database-NULL; any other value, 0, False and the empty string included,
\* renders as its text cut to 30 characters.
C3_NullOnlyForNull ==
    (SampleShown /\ ShownRows > 0) =>
        /\ ShownRows = Len(FetchedRows)
        /\ \A r \in 1..ShownRows : \A c \in 1..Len(FetchedRows[r]) :
              LET v == FetchedRows[r][c]
              IN  /\ (ShownCell(r, c) = "NULL") <=> (v.t = "None")
                  /\ v.t # "None" => ShownCell(r, c) = Str(Prefix(StrOf(v), MaxCellLen))

\* what the caller sees of a call
Seen(out) == [status |-> out.status, text |-> out.text, exc |-> out.exc]

\* the call of the inspector with n as the target, all else unchanged
CallWith(n) == introspect_schema(mssql, db, faults, n, include_sample_data, sample_limit)

\* the target is no catalog name but differs from one only in letter case
OnlyCaseMatch == TargetCalled /\ CatalogFetched /\ ~ExactMatch /\ CaseMatches # {}

\* C4 as stated: a target that is no catalog name and equals a catalog name n
\* case-insensitively gets the report of the call with target n, for every
\* such n.
C4_EveryCaseMatchSameReport ==
    OnlyCaseMatch => \A i \in CaseMatches : Seen(result) = Seen(CallWith(AllObjects[i]))

\* C4: a target that is no catalog name and equals catalog names
\* case-insensitively gets the report of the call whose target is the first
\* of them in the order tables, then views: same header name, columns,
\* primary-key section and sample.
C4_FirstCaseMatchSameReport ==
    OnlyCaseMatch =>
        /\ Seen(result) = Seen(CallWith(FirstCaseMatch))
        /\ \A i \in 1..Len(result.trace) :
              result.trace[i].op \in {"get_columns", "get_pk_constraint"}
                  => result.trace[i].arg = <<Str(FirstCaseMatch)>>
        /\ (result.status = "returned" /\ Len(result.text) > 1)
              => result.text[1] = <<"## ", Str(FirstCaseMatch)>>

\* a report was returned for a target that two catalog names stand for
C4_Witness ==
    /\ OnlyCaseMatch /\ Cardinality(CaseMatches) > 1
    /\ result.status = "returned" /\ include_sample_data
    /\ result.text[1] = <<"## ", Str(FirstCaseMatch)>>

\* the candidate names of a not-found message
CandidateCount(line) == (Len(line) - 3) \div 2
Candidate(line, i) == line[2 + 2 * i]

\* C5: a target that matches no table or view, exactly or case-insensitively,
\* gets a not-found message with at most 50 candidate names, each the name of
\* a table or view of the database, and no column, primary-key or sample step
\* is made.
C5_NotFoundListsAtMost50 ==
    (TargetCalled /\ CatalogFetched /\ ~ExactMatch /\ CaseMatches = {}) =>
        /\ result.status = "returned"
        /\ Len(result.text) = 1
        /\ LET line == result.text[1]
           IN  /\ Len(line) >= 4
               /\ line[1] = "Table/view '" /\ line[2] = Str(table_name)
               /\ line[3] = "' not found. Available: " /\ line[Len(line)] = "..."
               /\ CandidateCount(line) <= MaxCandidates
               /\ CandidateCount(line) <= Len(AllObjects)
               /\ Len(line) = 4 + (IF CandidateCount(line) = 0 THEN 0
                                   ELSE 2 * CandidateCount(line) - 1)
               /\ \A i \in 1..CandidateCount(line) :
                     \E j \in 1..Len(AllObjects) : Candidate(line, i) = Str(AllObjects[j])
        /\ \A i \in 1..Len(result.trace) :
              result.trace[i].op \in {"get_table_names", "get_view_names"}

\* a not-found message of a database with more than 50 objects, 50 shown
C5_Witness ==
    /\ TargetCalled /\ CatalogFetched /\ ~ExactMatch /\ CaseMatches = {}
    /\ Len(AllObjects) > MaxCandidates
    /\ result.status = "returned"
    /\ CandidateCount(result.text[1]) = MaxCandidates

\* the report has a primary-key section
HasPkSection ==
    \E i \in 1..Len(result.text) : result.text[i][1] = "**Primary Key:** "

\* a report was returned for a name of the catalog
Reported ==
    /\ TargetCalled /\ CatalogFetched /\ result.status = "returned"
    /\ (ExactMatch \/ CaseMatches # {})

\* C6: the report of a view never has a primary-key section, and a
\* primary-key section appears only for a name classified as a base table
\* with at least one constrained column, for every pair of name lists, a name
\* present in both included.
C6_NoPrimaryKeyForViews ==
    Reported =>
        /\ ResolvedName \in Range(db.views) => ~HasPkSection
        /\ HasPkSection =>
              /\ ResolvedName \in Range(db.tables)
              /\ Len(Meta(db, ResolvedName).pk.constrained_columns) > 0

\* the sample query of the call raised a DatabaseError
SampleQueryFailed ==
    /\ TargetCalled /\ include_sample_data
    /\ IsDatabaseError(faults[Step("sample", <<>>)])

\* the report of the same object when no sample is asked for and nothing fails
ReportWithoutSample ==
    introspect_schema(mssql, db, NoFault(TargetSteps), table_name, FALSE, sample_limit)

\* C7: when the sample query fails with a query-execution failure the report
\* still has the header, the columns and the primary-key section as without
\* the failure, then the sample section with an inline error note; it is not
\* a whole-call error.
C7_SampleFailureIsInline ==
    SampleQueryFailed =>
        /\ result.status = "returned"
        /\ Len(result.text) >= 4
        /\ result.text[1] = <<"## ", Str(ResolvedName)>>
        /\ SubSeq(result.text, 1, Len(result.text) - 2) = ReportWithoutSample.text
        /\ result.text[Len(result.text) - 1] = <<"### Sample">>
        /\ Len(result.text[Len(result.text)]) = 3
        /\ result.text[Len(result.text)][1] = "_Error: "
        /\ result.text[Len(result.text)][3] = "_"

\* the sample query of a table with columns and a primary key failed
C7_Witness ==
    /\ SampleQueryFailed /\ result.status = "returned"
    /\ HasPkSection
    /\ \E i \in 1..Len(result.text) : result.text[i] = <<"### Columns">>
    /\ result.text[Len(result.text)][1] = "_Error: "

\* the connection string has "mssql" in it, in any letter case
HasMssql(url) ==
    \E i \in 0..(Len(url) - 5) :
        /\ url[i + 1] \in {"m", "M"}
        /\ url[i + 2] \in {"s", "S"}
        /\ url[i + 3] \in {"s", "S"}
        /\ url[i + 4] \in {"q", "Q"}
        /\ url[i + 5] \in {"l", "L"}

\* the statement in the bracket dialect: [name], and TOP n for a sample
BracketStatement(sql) ==
    \/ Len(sql) = 4 /\ sql[1] = "SELECT COUNT(*) FROM " /\ sql[2] = "[" /\ sql[4] = "]"
    \/ /\ Len(sql) = 6 /\ sql[1] = "SELECT TOP " /\ sql[3] = " * FROM "
       /\ sql[4] = "[" /\ sql[6] = "]"

\* the statement in the default dialect: "name", and a trailing LIMIT n
QuoteStatement(sql) ==
    \/ Len(sql) = 4 /\ sql[1] = "SELECT COUNT(*) FROM " /\ sql[2] = "\"" /\ sql[4] = "\""
    \/ /\ Len(sql) = 6 /\ sql[1] = "SELECT * FROM " /\ sql[2] = "\"" /\ sql[4] = "\""
       /\ sql[5] = " LIMIT "

\* the dialect of every statement of the call is the one of the connection string
DialectFollowsUrl ==
    /\ mssql = HasMssql(db_url)
    /\ \A sql \in Statements :
          IF HasMssql(db_url) THEN BracketStatement(sql) ELSE QuoteStatement(sql)

\* C8: the dialect flag is fixed at creation and never changes: with "mssql"
\* in the connection string, in any letter case, every count and sample query
\* of every call quotes with square brackets and samples with TOP n; with any
\* other connection string they quote with double quotes and sample with a
\* trailing LIMIT n.
C8_DialectFixedByUrl ==
    /\ []DialectFollowsUrl
    /\ [][mssql' = mssql /\ db_url' = db_url]_vars

\* a sample query in the bracket dialect, for a connection string that spells
\* mssql with capitals
C8_Witness ==
    /\ ~Contains(<<"m","s","s","q","l">>, db_url) /\ HasMssql(db_url)
    /\ \E sql \in Statements : sql[1] = "SELECT TOP "

\* the row limit of a sample statement
IsSampleStatement(sql) == sql[1] \in {"SELECT TOP ", "SELECT * FROM "}
RowLimit(sql) == IF sql[1] = "SELECT TOP " THEN sql[2] ELSE sql[6]

\* C9: with include_sample_data set and a sample_limit of zero or less, the
\* call returns an error text without a sample query, or sends the sample
\* query with a row limit of 1; no non-positive row limit reaches the database.
C9_NoNonPositiveLimit ==
    (TargetCalled /\ include_sample_data /\ sample_limit <= 0) =>
        \A sql \in Statements : IsSampleStatement(sql) => RowLimit(sql) = "1"

\* a catalog query of the call failed with a connection-level failure
CatalogConnectionLost ==
    /\ Called
    /\ \/ IsOperationalError(faults[Step("get_table_names", <<>>)])
       \/ IsOperationalError(faults[Step("get_view_names", <<>>)])

\* C10: a connection-level failure while fetching the table or view names
\* makes the call return a text starting "Error: Database connection failed - "
\* and nothing else: no listing, no columns, no count and no sample query.
C10_CatalogFailureAborts ==
    CatalogConnectionLost =>
        /\ result.status = "returned"
        /\ Len(result.text) = 1
        /\ Len(result.text[1]) = 2
        /\ result.text[1][1] = "Error: Database connection failed - "
        /\ Statements = {}
        /\ \A i \in 1..Len(result.trace) :
              result.trace[i].op \in {"get_table_names", "get_view_names"}
        /\ faults[Step(result.trace[Len(result.trace)].op, <<>>)] = "OperationalError"

\* the view names of a listing could not be fetched, in a database with tables
C10_Witness ==
    /\ CatalogConnectionLost /\ ListingCalled /\ Len(db.tables) > 0
    /\ IsOperationalError(faults[Step("get_view_names", <<>>)])
    /\ result.text[1][1] = "Error: Database connection failed - "

\* the listing has a Views section
HasViewsSection ==
    \E i \in 1..Len(result.text) : result.text[i] = <<"## Views">>

\* the database reported no table and no view
EmptyCatalog == Len(db.tables) = 0 /\ Len(db.views) = 0

\* C11: a listing returns exactly "No tables or views found." if and only if
\* the database reports zero tables and zero views, and then sends no count
\* query; in every other case the result starts with the Tables section and
\* has a Views section exactly when there is at least one view.
C11_EmptyMessageOnlyWhenEmpty ==
    (ListingCalled /\ CatalogFetched) =>
        /\ (result.status = "returned" /\ result.text = << <<"No tables or views found.">> >>)
              <=> EmptyCatalog
        /\ EmptyCatalog => Statements = {}
        /\ ~EmptyCatalog =>
              /\ result.status = "returned"
              /\ Len(result.text) >= 2
              /\ result.text[1] = <<"## Tables">>
              /\ HasViewsSection <=> Len(db.views) > 0

\* the same, for the count failures that are a sqlalchemy DatabaseError
C11_DatabaseErrorsOnly ==
    (\A s \in DOMAIN faults : faults[s] = "ok" \/ IsDatabaseError(faults[s]))
        => C11_EmptyMessageOnlyWhenEmpty

\* the call sent a count query or a sample query that raised
QueryFailed ==
    \E s \in DOMAIN faults :
        /\ s.op \in {"count", "sample"}
        /\ faults[s] # "ok"
        /\ \E i \in 1..Len(result.trace) : result.trace[i].op = "execute"

\* the connections the call holds after the first i calls it made
HeldAfter(i) == CheckedOut(SubSeq(result.trace, 1, i))

\* C12: every connection a call acquires for a count query or a sample query
\* is released before the call ends, whether the query succeeded or failed;
\* a call never holds more than one connection, and the inspector holds no
\* connection after any sequence of calls.
C12_ConnectionsReleased ==
    /\ held = 0
    /\ \A i \in 0..Len(result.trace) : HeldAfter(i) \in {0, 1}
    /\ HeldAfter(Len(result.trace)) = 0
    /\ \A i \in 1..Len(result.trace) :
          result.trace[i].op = "execute" => HeldAfter(i) = 1

\* a listing of two tables or more in which one count query failed and
\* another succeeded, every connection released
C12_Witness ==
    /\ ListingCalled /\ QueryFailed /\ held = 0
    /\ Len(db.tables) >= 2
    /\ \E s \in DOMAIN faults : s.op = "count" /\ faults[s] = "ok"
    /\ \E i, j \in 1..Len(result.trace) :
          /\ i < j
          /\ result.trace[i].op = "connect"
          /\ result.trace[j].op = "close"
          /\ j < Len(result.trace)

\* the delimiter that ends a quoted identifier in the dialect of the call
ClosingDelimiter == IF mssql THEN "]" ELSE "\""

\* where the database stops reading the identifier that quoted(n) opens: at
\* the first closing delimiter of n, or at the one that quoted puts after n
FirstClose(n) ==
    LET S == {i \in 1..Len(n) : n[i] = ClosingDelimiter}
    IN  IF S = {} THEN Len(n) + 1 ELSE CHOOSE i \in S : \A j \in S : i <= j

\* the object the database reads from quoted(n), and the text it reads after
\* that object as more SQL
ObjectRead(n) == SubSeq(n, 1, FirstClose(n) - 1)
Trailing(n) == SubSeq(n, FirstClose(n) + 1, Len(n))

\* the text holds a statement that changes the database
Mutating(sql) ==
    \/ Contains(<<"D","R","O","P"," ">>, sql)
    \/ Contains(<<"D","E","L","E","T","E"," ">>, sql)
    \/ Contains(<<"U","P","D","A","T","E"," ">>, sql)
    \/ Contains(<<"I","N","S","E","R","T"," ">>, sql)

\* the name interpolated into a statement
NameOf(sql) == IF sql[1] = "SELECT TOP " THEN sql[5] ELSE sql[3]

\* a SELECT COUNT( * ) or a row-limited SELECT * in the dialect of the call
IsCountOrSample(sql) == IF mssql THEN BracketStatement(sql) ELSE QuoteStatement(sql)

\* the target of the call is no catalog name, exactly or ignoring case
Unresolved == ~ExactMatch /\ CaseMatches = {}

\* C13: every statement sent is a SELECT COUNT( * ) or a row-limited SELECT *
\* over a single object whose name the catalog queries of the same call
\* returned; a target reaches a statement only as the catalog name it was
\* resolved to, a target that is no catalog name sends nothing, and no
\* statement that changes the database is sent.
C13_OnlyCatalogSelects ==
    Called =>
        /\ \A sql \in Statements :
              /\ IsCountOrSample(sql)
              /\ \E n \in Range(AllObjects) :
                    /\ NameOf(sql) = Str(n)
                    /\ ObjectRead(n) = n
                    /\ ~Mutating(Trailing(n))
              /\ TargetCalled => NameOf(sql) = Str(ResolvedName)
        /\ (TargetCalled /\ CatalogFetched /\ Unresolved) => Statements = {}

\* the part of C13 about where the names come from: the name of every
\* statement is a catalog name of the same call, the one the target was
\* resolved to in a report, and an unresolved target sends nothing
C13_NamesFromCatalog ==
    Called =>
        /\ \A sql \in Statements :
              /\ IsCountOrSample(sql)
              /\ \E n \in Range(AllObjects) : NameOf(sql) = Str(n)
              /\ TargetCalled => NameOf(sql) = Str(ResolvedName)
        /\ (TargetCalled /\ CatalogFetched /\ Unresolved) => Statements = {}

====
